---------------------------- MODULE Spec2Model ----------------------------
(***************************************************************************)
(* A model of the release-PR action: the entry point main() of             *)
(* src/src/index.ts, the package operations of                             *)
(* src/src/package-operations.ts, the git operations of                    *)
(* src/src/git-operations.ts (lines 1-97) and the input validation of      *)
(* src/src/utils.ts.                                                       *)
(*                                                                         *)
(* JavaScript values are records with a field k (their kind):              *)
(*   "ver"  a string that spells a version: pfx (the characters before the *)
(*          version, such as "v" or "^"), maj, min, pat and pre (the       *)
(*          pre-release segment, "" when there is none);                   *)
(*   "txt"  any other string: s, its text as a sequence of tokens, chosen  *)
(*          so that one text is a substring (prefix) of another exactly    *)
(*          when its tokens are a subsequence (prefix) of the other's;     *)
(*   "null", "bool", "promise", and "obj": an object as the sequence e of  *)
(*          its [key, val] entries in property order.                      *)
(***************************************************************************)
EXTENDS Integers, Sequences, FiniteSets, TLC

\* ------------------------------------------------------------- bounds

\* Version components range over 0..MaxNum.
MaxNum == 2
\* The packages directory lists at most MaxEntries entries.
MaxEntries == 2
\* A dependency group of a manifest has at most MaxDeps entries.
MaxDeps == 2

\* ------------------------------------------------------------- values

Null == [k |-> "null"]
Bool(b) == [k |-> "bool", b |-> b]
Txt(s) == [k |-> "txt", s |-> s]
Ver(maj, min, pat, pre) ==
  [k |-> "ver", pfx |-> <<>>, maj |-> maj, min |-> min, pat |-> pat, pre |-> pre]
Obj(e) == [k |-> "obj", e |-> e]
\* What an async function returns to a synchronous caller.
Promise == [k |-> "promise"]

EmptyString == Txt(<<>>)

\* typeof value === 'string'
IsString(value) == value.k \in {"ver", "txt"}

\* Boolean(value): null, false and '' are falsy; every object (a Promise
\* included) and every non-empty string is truthy.
Truthy(value) ==
  CASE value.k = "null" -> FALSE
    [] value.k = "bool" -> value.b
    [] value.k = "txt" -> value.s # <<>>
    [] OTHER -> TRUE

\* `${prefix}${value}` for a one-character prefix and a string value.
Prepend(c, value) ==
  IF value.k = "ver" THEN [value EXCEPT !.pfx = <<c>> \o @]
  ELSE [value EXCEPT !.s = <<c>> \o @]

\* String.prototype.includes
Includes(str, sub) ==
  \E i \in 1..(Len(str) + 1) :
     /\ i + Len(sub) - 1 <= Len(str)
     /\ SubSeq(str, i, i + Len(sub) - 1) = sub

\* String.prototype.startsWith
StartsWith(str, prefix) ==
  /\ Len(prefix) <= Len(str)
  /\ SubSeq(str, 1, Len(prefix)) = prefix

\* ------------------------------------------------------------- objects

RECURSIVE IndexOfKey(_, _, _)
IndexOfKey(e, key, i) ==
  IF i > Len(e) THEN 0
  ELSE IF e[i].key = key THEN i
  ELSE IndexOfKey(e, key, i + 1)

\* key in obj, for the object's own properties
HasOwn(obj, key) == IndexOfKey(obj.e, key, 1) # 0

\* obj[key], for a key the object has
Get(obj, key) == obj.e[IndexOfKey(obj.e, key, 1)].val

\* obj[key] = val: an existing property keeps its place, a new one is added
\* after the others.
Assign(obj, key, val) ==
  LET i == IndexOfKey(obj.e, key, 1) IN
  IF i = 0 THEN Obj(Append(obj.e, [key |-> key, val |-> val]))
  ELSE Obj([obj.e EXCEPT ![i] = [key |-> key, val |-> val]])

\* Object.keys(obj), in property order
Keys(obj) == [i \in 1..Len(obj.e) |-> obj.e[i].key]

KeySet(obj) == {obj.e[i].key : i \in 1..Len(obj.e)}

RECURSIVE AssignAll(_, _, _)
\* { ...target, ...source }, from the i-th property of source on
AssignAll(target, source, i) ==
  IF i > Len(source.e) THEN target
  ELSE AssignAll(Assign(target, source.e[i].key, source.e[i].val), source, i + 1)

Spread(target, source) == AssignAll(target, source, 1)

\* ------------------------------------------------------------- semver

\* semver's parse(value, { loose: false }): null for what is no version;
\* one leading "v" is accepted and dropped from the parsed .version.
semverParse(value) ==
  IF value.k = "ver" /\ value.pfx \in {<<>>, <<"v">>}
  THEN [value EXCEPT !.pfx = <<>>]
  ELSE Null

isValidSemVer(value) ==
  IF ~IsString(value) THEN FALSE
  ELSE semverParse(value) = value

\* The prefix characters semver's clean() strips: /^[=v]+/.
RECURSIVE StripEqV(_)
StripEqV(pfx) ==
  IF pfx # <<>> /\ Head(pfx) \in {"=", "v"} THEN StripEqV(Tail(pfx)) ELSE pfx

semverClean(value) ==
  IF value.k = "ver" /\ StripEqV(value.pfx) = <<>>
  THEN [value EXCEPT !.pfx = <<>>]
  ELSE Null

\* An increment that ignores the pre-release segment of the version: the
\* named component always goes up by one. C7 is checked against it.
incrementNamedComponent(version, release) ==
  LET rel == IF release.k = "txt" THEN release.s ELSE <<>> IN
  CASE rel = <<"major">> -> Ver(version.maj + 1, 0, 0, "")
    [] rel = <<"minor">> -> Ver(version.maj, version.min + 1, 0, "")
    [] rel = <<"patch">> -> Ver(version.maj, version.min, version.pat + 1, "")
    [] OTHER -> Null

\* semver's inc(version, release): SemVer.inc for the release types, null
\* when the release type is none of them (inc throws, the wrapper catches).
semverIncrement(version, release) ==
  LET hasPre == version.pre # ""
      rel == IF release.k = "txt" THEN release.s ELSE <<>>
  IN
  CASE rel = <<"major">> ->
         Ver(IF version.min # 0 \/ version.pat # 0 \/ ~hasPre
             THEN version.maj + 1 ELSE version.maj, 0, 0, "")
    [] rel = <<"minor">> ->
         Ver(version.maj,
             IF version.pat # 0 \/ ~hasPre THEN version.min + 1 ELSE version.min,
             0, "")
    [] rel = <<"patch">> ->
         Ver(version.maj, version.min,
             IF ~hasPre THEN version.pat + 1 ELSE version.pat, "")
    [] rel = <<"pre", "major">> -> Ver(version.maj + 1, 0, 0, "0")
    [] rel = <<"pre", "minor">> -> Ver(version.maj, version.min + 1, 0, "0")
    [] rel = <<"pre", "patch">> -> Ver(version.maj, version.min, version.pat + 1, "0")
    [] OTHER -> Null

\* semver's diff(version1, version2): null for equal versions, else the
\* first differing component, "pre"-prefixed when either has a pre-release.
semverDiff(version1, version2) ==
  LET hasPre == version1.pre # "" \/ version2.pre # ""
      prefix == IF hasPre THEN <<"pre">> ELSE <<>>
  IN
  IF version1 = version2 THEN Null
  ELSE IF version1.maj # version2.maj THEN Txt(prefix \o <<"major">>)
  ELSE IF version1.min # version2.min THEN Txt(prefix \o <<"minor">>)
  ELSE IF version1.pat # version2.pat THEN Txt(prefix \o <<"patch">>)
  ELSE Txt(<<"pre", "release">>)

\* ------------------------------------------------------------- utils.ts

\* enum AcceptedSemVerDiffs { Major = 'major', Minor = 'minor', Patch = 'patch' }
AcceptedSemVerDiffs ==
  Obj(<< [key |-> <<"Major">>, val |-> Txt(<<"major">>)],
         [key |-> <<"Minor">>, val |-> Txt(<<"minor">>)],
         [key |-> <<"Patch">>, val |-> Txt(<<"patch">>)] >>)

\* Property names every object inherits from Object.prototype.
ObjectPrototypeKeys == {<<"constructor">>, <<"toString">>}

\* key in obj: own and inherited properties
In(key, obj) ==
  /\ key.k = "txt"
  /\ HasOwn(obj, key.s) \/ key.s \in ObjectPrototypeKeys

\* validateActionInputs: "ok", or the error it throws.
validateActionInputs(inputs) ==
  IF ~Truthy(inputs.BumpType) /\ ~Truthy(inputs.BumpVersion)
    THEN "MustSpecifyEither"
  ELSE IF Truthy(inputs.BumpType) /\ Truthy(inputs.BumpVersion)
    THEN "NotBoth"
  ELSE IF Truthy(inputs.BumpType) /\ ~In(inputs.BumpType, AcceptedSemVerDiffs)
    THEN "UnrecognizedBumpType"
  ELSE IF Truthy(inputs.BumpVersion) /\ ~isValidSemVer(inputs.BumpVersion)
    THEN "NotPlainSemVer"
  ELSE "ok"

\* getInput(name) || null
OrNull(value) == IF Truthy(value) THEN value ELSE Null

isTruthyString(value) == Truthy(value) /\ IsString(value)

\* ------------------------------------------------- package-operations.ts

NAME == <<"name">>
VERSION == <<"version">>

\* Object.values(PackageDependencyFields)
PackageDependencyFields ==
  << <<"dependencies">>, <<"devDependencies">>, <<"peerDependencies">> >>

\* A test for the category "major" alone (diff === 'major'). C4 is checked
\* against it.
isExactlyMajor(diff) == diff.s = <<"major">>

\* isMajorSemVerDiff: diff.includes('major')
isMajorSemVerDiff(diff) == Includes(diff.s, <<"major">>)

RECURSIVE ReduceDependencyField(_, _, _, _)
\* The reduce of getUpdatedDependencyField, from the i-th key on.
ReduceDependencyField(newDeps, dependencyField, updateContext, i) ==
  IF i > Len(dependencyField.e) THEN newDeps
  ELSE
    LET packageName == dependencyField.e[i].key
        newVersionRange == Prepend("^", updateContext.newVersion)
    IN ReduceDependencyField(
         Assign(newDeps, packageName,
                IF packageName \in updateContext.packagesToUpdate
                THEN newVersionRange
                ELSE Get(dependencyField, packageName)),
         dependencyField, updateContext, i + 1)

\* A rewrite of every entry of a dependency group, whatever its name. C5 is
\* checked against it.
rewriteEveryDependency(dependencyField, updateContext) ==
  Obj([i \in 1..Len(dependencyField.e) |->
         [key |-> dependencyField.e[i].key,
          val |-> Prepend("^", updateContext.newVersion)]])

\* A rewrite that puts the caret before the range it finds instead of before
\* the new version. C24 is checked against it.
widenDependencyRanges(dependencyField, updateContext) ==
  Obj([i \in 1..Len(dependencyField.e) |->
         [key |-> dependencyField.e[i].key,
          val |-> IF dependencyField.e[i].key \in updateContext.packagesToUpdate
                  THEN Prepend("^", dependencyField.e[i].val)
                  ELSE dependencyField.e[i].val]])

getUpdatedDependencyField(dependencyField, updateContext) ==
  ReduceDependencyField(Obj(<<>>), dependencyField, updateContext, 1)

RECURSIVE ReduceDependencyFields(_, _, _, _)
\* The reduce of getUpdatedDependencyFields, from the i-th field name on.
ReduceDependencyFields(newDepsFields, manifest, updateContext, i) ==
  IF i > Len(PackageDependencyFields) THEN newDepsFields
  ELSE
    LET fieldName == PackageDependencyFields[i] IN
    ReduceDependencyFields(
      IF HasOwn(manifest, fieldName)
      THEN Assign(newDepsFields, fieldName,
                  getUpdatedDependencyField(Get(manifest, fieldName), updateContext))
      ELSE newDepsFields,
      manifest, updateContext, i + 1)

getUpdatedDependencyFields(manifest, updateContext) ==
  ReduceDependencyFields(Obj(<<>>), manifest, updateContext, 1)

\* An update that synchronizes under every version diff. C6 is checked
\* against it.
getSynchronizedManifest(currentManifest, updateContext) ==
  Assign(Spread(currentManifest,
                getUpdatedDependencyFields(currentManifest, updateContext)),
         VERSION, updateContext.newVersion)

getUpdatedManifest(currentManifest, updateContext) ==
  IF isMajorSemVerDiff(updateContext.versionDiff)
  THEN Assign(Spread(currentManifest,
                     getUpdatedDependencyFields(currentManifest, updateContext)),
              VERSION, updateContext.newVersion)
  ELSE Assign(currentManifest, VERSION, updateContext.newVersion)

\* ------------------------------------------------------------- index.ts

\* main, lines 24-34: the new version and the version diff.
computeNewVersion(currentVersion, actionInputs) ==
  IF Truthy(actionInputs.BumpType)
  THEN [newVersion |-> semverIncrement(currentVersion, actionInputs.BumpType),
        versionDiff |-> actionInputs.BumpType]
  ELSE [newVersion |-> actionInputs.BumpVersion,
        versionDiff |-> semverDiff(currentVersion, actionInputs.BumpVersion)]

\* ------------------------------------------------------------- state

VARIABLES
  call,             \* a single call of a pure function: its arguments and result
  \* the environment of a run
  actionInput,      \* what getInput returns for bump-type and bump-version
  files,            \* the text of each manifest file, by path
  packagesDirContents, \* the entries of the packages directory
  repoTags,         \* the lines "git tag" prints
  repoDiff,         \* the lines "git diff <tag> HEAD --name-only" prints, by tag
  \* main() and what it awaits
  pc,               \* where main is
  failure,          \* the error passed to setFailed, "none" before
  actionInputs,
  rootManifest,
  newVersion,
  versionDiff,
  tasks,            \* getPackagesMetadata's callbacks, by directory entry
  allPackages,
  packagesToUpdate,
  writers,          \* updatePackage's calls, by package name
  writeCount,       \* the writes completed, by path
  \* git-operations.ts
  INITIALIZED_GIT,
  TAGS,
  DIFFS,
  calls,            \* didPackageChange's calls, by package name
  tagQueries,       \* the "git tag" commands run
  diffQueries,      \* the "git diff" commands run, by tag
  \* what the run reports and the changelog step
  outputs,          \* the outputs passed to setOutput, in order
  changelog         \* the changelog step of each updatePackage call

envVars == <<actionInput, packagesDirContents, repoTags, repoDiff>>
mainVars ==
  <<pc, failure, actionInputs, rootManifest, newVersion, versionDiff, tasks,
    allPackages, packagesToUpdate, writers, writeCount, files>>
gitVars == <<INITIALIZED_GIT, TAGS, DIFFS, calls, tagQueries, diffQueries>>

reportVars == <<outputs, changelog>>

vars == <<call, envVars, mainVars, gitVars, reportVars>>

\* The changelog step when changelog updates are not requested.
NoChangelog ==
  [shouldUpdateChangelog |-> FALSE, repositoryUrl |-> Null, readable |-> <<>>,
   started |-> FALSE, steps |-> <<>>, formatterCalls |-> <<>>, logged |-> <<>>,
   written |-> <<>>]

\* ------------------------------------------------- inputs of single calls

PreReleases == {"", "beta"}

\* The valid, unprefixed versions with components up to MaxNum.
Versions ==
  {Ver(maj, min, pat, pre) :
     maj \in 0..MaxNum, min \in 0..MaxNum, pat \in 0..MaxNum, pre \in PreReleases}

\* Values of the bump-type input: the three release types, the names of the
\* enum's members, another release type, an inherited property name, '' and
\* null.
BumpTypeInputs ==
  {Null, EmptyString, Txt(<<"major">>), Txt(<<"minor">>), Txt(<<"patch">>),
   Txt(<<"Major">>), Txt(<<"Minor">>), Txt(<<"Patch">>),
   Txt(<<"pre", "major">>), Txt(<<"constructor">>), Txt(<<"foo">>)}

\* Values of the bump-version input: versions, a v-prefixed version, text
\* that is no version, '' and null.
BumpVersionInputs ==
  {Null, EmptyString, Txt(<<"foo">>), Prepend("v", Ver(1, 0, 0, "")),
   Ver(1, 0, 0, ""), Ver(1, 1, 0, ""), Ver(MaxNum, 0, 0, ""),
   Ver(MaxNum, 0, 0, "beta")}

ReleaseTokens == {Txt(<<"major">>), Txt(<<"minor">>), Txt(<<"patch">>)}

\* semver's ReleaseType
ReleaseTypes ==
  ReleaseTokens \cup
  {Txt(<<"pre", "major">>), Txt(<<"pre", "minor">>), Txt(<<"pre", "patch">>),
   Txt(<<"pre", "release">>)}

\* Names of workspace packages, and of a package outside the workspace.
WorkspaceNames == {<<"a">>, <<"b">>}
DependencyNames == WorkspaceNames \cup {<<"foo">>}

RangeOf(name) ==
  IF name \in WorkspaceNames THEN Prepend("^", Ver(1, 0, 0, "")) ELSE Txt(<<"bar">>)

\* The sequences of at most n distinct elements of S.
DistinctSeqs(S, n) ==
  {q \in UNION {[1..m -> S] : m \in 0..n} :
     \A i, j \in 1..Len(q) : i # j => q[i] # q[j]}

\* The dependency groups: Record<string, string>, in every key order.
DependencyFieldInputs ==
  {Obj([i \in 1..Len(q) |-> [key |-> q[i], val |-> RangeOf(q[i])]]) :
     q \in DistinctSeqs(DependencyNames, MaxDeps)}

ValuesOfField(key) ==
  CASE key = NAME -> {Txt(<<"a">>)}
    [] key = VERSION -> {Ver(1, 0, 0, "")}
    [] key = <<"license">> -> {Txt(<<"MIT">>)}
    [] OTHER -> DependencyFieldInputs

\* The key orders of the manifests.
ManifestShapes ==
  { <<NAME, VERSION>>,
    <<VERSION, NAME>>,
    <<NAME, VERSION, <<"dependencies">> >>,
    <<NAME, VERSION, <<"license">>, <<"devDependencies">> >>,
    << <<"dependencies">>, NAME, VERSION, <<"peerDependencies">> >>,
    <<NAME, <<"devDependencies">>, VERSION, <<"dependencies">> >>,
    <<NAME, VERSION, <<"dependencies">>, <<"devDependencies">>,
      <<"peerDependencies">> >> }

RECURSIVE FillShape(_, _)
FillShape(shape, i) ==
  IF i > Len(shape) THEN {<<>>}
  ELSE {<<[key |-> shape[i], val |-> v]>> \o rest :
          v \in ValuesOfField(shape[i]), rest \in FillShape(shape, i + 1)}

ManifestInputs == UNION {{Obj(e) : e \in FillShape(shape, 1)} : shape \in ManifestShapes}

UpdateContextInputs ==
  [versionDiff : {Txt(<<"major">>), Txt(<<"pre", "major">>), Txt(<<"minor">>)},
   newVersion : {Ver(MaxNum, 0, 0, ""), Ver(1, 0, 1, "")},
   packagesToUpdate : SUBSET WorkspaceNames]

\* ------------------------------------------------ files and manifests

\* JSON.stringify(value, null, indent): the text of a JSON file, as the
\* value it spells, its indentation and whether a line break ends it.
JSONstringify(value, indent) ==
  [value |-> value, indent |-> indent, trailingNewline |-> FALSE]

JSONparse(text) == text.value

\* What a manifest file holds before the run: 2-space indentation and a
\* final line break.
FileText(value) == [value |-> value, indent |-> 2, trailingNewline |-> TRUE]

PACKAGE_JSON == <<"package.json">>

\* pathUtils.join of two path segments
Join(a, b) == a \o <<"/">> \o b

WORKSPACE_ROOT == <<"root">>

\* obj[key], undefined (here null) for a key the object does not have
Field(obj, key) == IF HasOwn(obj, key) THEN Get(obj, key) ELSE Null

\* A validation that tests the version before the name. C17 is checked
\* against it.
validateVersionThenName(manifest, requiredFields) ==
  IF VERSION \in requiredFields /\ ~isValidSemVer(Field(manifest, VERSION))
    THEN "InvalidVersion"
  ELSE IF NAME \in requiredFields /\ ~isTruthyString(Field(manifest, NAME))
    THEN "InvalidName"
  ELSE "ok"

\* validatePackageManifest: "ok", or the error it throws.
validatePackageManifest(manifest, requiredFields) ==
  IF NAME \in requiredFields /\ ~isTruthyString(Field(manifest, NAME))
    THEN "InvalidName"
  ELSE IF VERSION \in requiredFields /\ ~isValidSemVer(Field(manifest, VERSION))
    THEN "InvalidVersion"
  ELSE "ok"

\* readJsonFile, given the text of the file: the parsed value, or the error
\* thrown for a falsy one.
readJsonFile(text) ==
  LET obj == JSONparse(text) IN
  IF ~Truthy(obj) THEN [error |-> "FalsyJson", obj |-> Null]
  ELSE [error |-> "none", obj |-> obj]

\* getPackageManifest, given the text of the manifest file. requiredFields
\* is [undefined |-> TRUE] for a call without the argument, for which
\* validatePackageManifest's default ['name', 'version'] applies.
getPackageManifest(text, requiredFields) ==
  LET r == readJsonFile(text)
      fields == IF requiredFields.undefined THEN {NAME, VERSION}
                ELSE requiredFields.fields
  IN
  IF r.error # "none" THEN [error |-> r.error, manifest |-> Null]
  ELSE IF validatePackageManifest(r.obj, fields) # "ok"
    THEN [error |-> validatePackageManifest(r.obj, fields), manifest |-> Null]
  ELSE [error |-> "none", manifest |-> r.obj]

PRIVATE == <<"private">>
WORKSPACES == <<"workspaces">>

\* A JSON array of the given elements.
Arr(e) == [k |-> "arr", e |-> e]

\* value is a non-empty array of strings
IsNonEmptyStringArray(value) ==
  /\ value.k = "arr"
  /\ value.e # <<>>
  /\ \A i \in 1..Len(value.e) : IsString(value.e[i])

\* A validation of the fields that are present, each on its own. C18 is
\* checked against it.
validatePresentFieldsOnly(manifest) ==
  IF HasOwn(manifest, WORKSPACES) /\ ~IsNonEmptyStringArray(Get(manifest, WORKSPACES))
    THEN [error |-> "InvalidWorkspaces", manifest |-> Null]
  ELSE IF HasOwn(manifest, PRIVATE) /\ Get(manifest, PRIVATE) # Bool(TRUE)
    THEN [error |-> "InvalidPrivate", manifest |-> Null]
  ELSE [error |-> "none", manifest |-> manifest]

\* validateMonorepoPackageManifest, as the specification of the root
\* manifest describes it: "workspaces", if present, is a non-empty list of
\* strings; "private", if present, is exactly true; and a manifest with
\* "workspaces" has "private" true. The manifest is passed through.
validateMonorepoPackageManifest(manifest) ==
  IF HasOwn(manifest, WORKSPACES) /\ ~IsNonEmptyStringArray(Get(manifest, WORKSPACES))
    THEN [error |-> "InvalidWorkspaces", manifest |-> Null]
  ELSE IF HasOwn(manifest, PRIVATE) /\ Get(manifest, PRIVATE) # Bool(TRUE)
    THEN [error |-> "InvalidPrivate", manifest |-> Null]
  ELSE IF HasOwn(manifest, WORKSPACES) /\ Field(manifest, PRIVATE) # Bool(TRUE)
    THEN [error |-> "InvalidPrivate", manifest |-> Null]
  ELSE [error |-> "none", manifest |-> manifest]

\* Metadata that records the packages directory as the path of every
\* package. C28 is checked against it.
PackageMetadataAtPackagesPath(packagesPath, packageDir, manifest) ==
  [dirName |-> packageDir,
   manifest |-> manifest,
   name |-> Get(manifest, NAME).s,
   path |-> packagesPath]

\* The metadata getPackagesMetadata records for a directory entry.
PackageMetadata(packagesPath, packageDir, manifest) ==
  [dirName |-> packageDir,
   manifest |-> manifest,
   name |-> Get(manifest, NAME).s,
   path |-> Join(packagesPath, packageDir)]

\* ----------------------------------------------------- git-operations.ts

versionToTag(version) == Prepend("v", version)

\* stdout.trim().split('\n') of a git command that printed these lines
SplitLines(lines) == IF lines = <<>> THEN <<EmptyString>> ELSE lines

\* A getTags that takes the first line for the latest tag. C14 is checked
\* against it.
getTagsTakingFirst(stdout) ==
  LET allTags == SplitLines(stdout)
      latestTag == allTags[1]
  IN
  IF ~Truthy(latestTag) \/ ~isValidSemVer(semverClean(latestTag))
  THEN [error |-> "InvalidLatestTag", allTags |-> <<>>, latestTag |-> Null]
  ELSE [error |-> "none", allTags |-> allTags, latestTag |-> latestTag]

\* getTags, given what "git tag" printed: the tags, or the error thrown.
getTags(stdout) ==
  LET allTags == SplitLines(stdout)
      latestTag == allTags[Len(allTags)]
  IN
  IF ~Truthy(latestTag) \/ ~isValidSemVer(semverClean(latestTag))
  THEN [error |-> "InvalidLatestTag", allTags |-> <<>>, latestTag |-> Null]
  ELSE [error |-> "none", allTags |-> allTags, latestTag |-> latestTag]

\* hasDiff, given the diff of the tag
hasDiff(packageData, diff, packagesDir) ==
  LET packagePathPrefix == Join(packagesDir, packageData.dirName) IN
  \E i \in 1..Len(diff) : StartsWith(diff[i].s, packagePathPrefix)

PACKAGES_DIR == <<"packages">>

\* A change detector that does not look for the tag among the tags: it
\* goes on to the diff. C9 is checked against it.
didPackageChangeWithoutTagTest(packageData, tags, diffs) ==
  LET tagOfCurrentVersion == versionToTag(Get(packageData.manifest, VERSION)) IN
  IF tags = Null
    THEN [pc |-> "rejected", result |-> "TypeError"]
  ELSE IF tagOfCurrentVersion \in DOMAIN diffs
    THEN [pc |-> "resolved",
          result |-> IF hasDiff(packageData, diffs[tagOfCurrentVersion], PACKAGES_DIR)
                     THEN "true" ELSE "false"]
  ELSE [pc |-> "gitDiff", result |-> "none"]

\* A change detector whose performDiff does not look into DIFFS: it runs
\* "git diff" for every call that finds its tag. C12 is checked against it.
didPackageChangeWithoutCache(packageData, tags, diffs) ==
  LET tagOfCurrentVersion == versionToTag(Get(packageData.manifest, VERSION)) IN
  IF tags = Null
    THEN [pc |-> "rejected", result |-> "TypeError"]
  ELSE IF \A i \in 1..Len(tags.e) : tags.e[i] # tagOfCurrentVersion
    THEN [pc |-> "rejected", result |-> "NoCorrespondingTag"]
  ELSE [pc |-> "gitDiff", result |-> "none"]

\* didPackageChange after "await initializeGit()", up to the diff: the
\* error it throws, the answer from a cached diff, or the need to run
\* "git diff" for the tag.
didPackageChange(packageData, tags, diffs) ==
  LET tagOfCurrentVersion == versionToTag(Get(packageData.manifest, VERSION)) IN
  IF tags = Null
    THEN [pc |-> "rejected", result |-> "TypeError"]
  ELSE IF \A i \in 1..Len(tags.e) : tags.e[i] # tagOfCurrentVersion
    THEN [pc |-> "rejected", result |-> "NoCorrespondingTag"]
  ELSE IF tagOfCurrentVersion \in DOMAIN diffs
    THEN [pc |-> "resolved",
          result |-> IF hasDiff(packageData, diffs[tagOfCurrentVersion], PACKAGES_DIR)
                     THEN "true" ELSE "false"]
  ELSE [pc |-> "gitDiff", result |-> "none"]

\* --------------------------------------------------------- single calls

\* What "git tag" may print to a call of getTags: nothing, tags with and
\* without a "v", tags that are no versions, and tags with other prefixes.
TagOutputs ==
  { <<>>,
    <<Ver(1, 0, 0, "")>>,
    <<Prepend("v", Ver(1, 0, 0, ""))>>,
    <<Txt(<<"foo">>), Prepend("v", Ver(1, 0, 0, ""))>>,
    <<Prepend("v", Ver(1, 0, 0, "")), Txt(<<"foo">>)>>,
    <<Prepend("v", Ver(1, 0, 0, "")), Prepend("v", Ver(1, 1, 0, "beta"))>>,
    <<Prepend("=", Prepend("v", Ver(1, 0, 0, "")))>>,
    <<Prepend("v", Prepend("v", Ver(1, 0, 0, "")))>>,
    <<Prepend("^", Ver(1, 0, 0, ""))>> }

\* An object of the given fields; a field whose value is "absent" is left
\* out.
ObjOf(fields) ==
  LET present == SelectSeq(fields, LAMBDA f : f.val # [k |-> "absent"]) IN Obj(present)

\* The manifests a call of getPackageManifest may read: every combination
\* of a missing, valid and invalid name and version; and the JSON text
\* "null".
NameInputs ==
  {[k |-> "absent"], Txt(<<"a">>), EmptyString, Null, Bool(TRUE)}

VersionInputs ==
  {[k |-> "absent"], Ver(1, 0, 0, ""), Prepend("v", Ver(1, 0, 0, "")),
   Txt(<<"foo">>), Null}

ReadManifestInputs ==
  {ObjOf(<<[key |-> NAME, val |-> n], [key |-> VERSION, val |-> v]>>) :
     n \in NameInputs, v \in VersionInputs} \cup {Null}

\* The root manifests a call of validateMonorepoPackageManifest may get.
PrivateInputs == {[k |-> "absent"], Bool(TRUE), Bool(FALSE), Obj(<<>>)}

WorkspacesInputs ==
  {[k |-> "absent"], Arr(<<>>), Arr(<<Txt(<<"a">>), Txt(<<"b">>)>>),
   Txt(<<"foo">>), Arr(<<Txt(<<"a">>), Null>>)}

MonorepoManifestInputs ==
  {ObjOf(<<[key |-> PRIVATE, val |-> p],
           [key |-> VERSION, val |-> Ver(1, 0, 0, "")],
           [key |-> WORKSPACES, val |-> w]>>) :
     p \in PrivateInputs, w \in WorkspacesInputs}

RequiredFieldsInputs ==
  {[undefined |-> TRUE, fields |-> {}]}
  \cup [undefined : {FALSE}, fields : SUBSET {NAME, VERSION}]

PendingCalls ==
  [fn : {"validateActionInputs"}, done : {FALSE},
     inputs : [BumpType : BumpTypeInputs, BumpVersion : BumpVersionInputs]]
  \cup
  [fn : {"computeNewVersion"}, done : {FALSE}, currentVersion : Versions,
     inputs : [BumpType : ReleaseTokens, BumpVersion : {Null}]
              \cup [BumpType : {Null}, BumpVersion : Versions]]
  \cup
  [fn : {"isMajorSemVerDiff"}, done : {FALSE}, diff : ReleaseTypes]
  \cup
  [fn : {"getUpdatedManifest"}, done : {FALSE}, manifest : ManifestInputs,
     updateContext : UpdateContextInputs]
  \cup
  [fn : {"getTags"}, done : {FALSE}, stdout : TagOutputs, allowEmpty : BOOLEAN]
  \cup
  [fn : {"getPackageManifest"}, done : {FALSE},
     text : {FileText(m) : m \in ReadManifestInputs},
     requiredFields : RequiredFieldsInputs]
  \cup
  [fn : {"validateMonorepoPackageManifest"}, done : {FALSE},
     manifest : MonorepoManifestInputs]

\* The module state before anything ran.
InitProgram ==
  /\ pc = "start"
  /\ failure = "none"
  /\ actionInputs = Null
  /\ rootManifest = Null
  /\ newVersion = Null
  /\ versionDiff = Null
  /\ tasks = <<>>
  /\ allPackages = Obj(<<>>)
  /\ packagesToUpdate = {}
  /\ writers = <<>>
  /\ writeCount = <<>>
  /\ INITIALIZED_GIT = FALSE
  /\ TAGS = Null
  /\ DIFFS = <<>>
  /\ calls = <<>>
  /\ tagQueries = 0
  /\ diffQueries = <<>>
  /\ outputs = <<>>
  /\ changelog = NoChangelog

InitFn ==
  /\ call \in PendingCalls
  /\ actionInput = [BumpType |-> EmptyString, BumpVersion |-> EmptyString]
  /\ files = <<>>
  /\ packagesDirContents = {}
  /\ repoTags = <<>>
  /\ repoDiff = <<>>
  /\ InitProgram

Return(ret) ==
  /\ call' = [fn |-> call.fn, done |-> TRUE, args |-> call, ret |-> ret]
  /\ UNCHANGED <<envVars, mainVars, gitVars, reportVars>>

CallValidateActionInputs ==
  /\ call.fn = "validateActionInputs" /\ ~call.done
  /\ Return(validateActionInputs(call.inputs))

CallComputeNewVersion ==
  /\ call.fn = "computeNewVersion" /\ ~call.done
  /\ Return(computeNewVersion(call.currentVersion, call.inputs))

CallIsMajorSemVerDiff ==
  /\ call.fn = "isMajorSemVerDiff" /\ ~call.done
  /\ Return(isMajorSemVerDiff(call.diff))

CallGetUpdatedManifest ==
  /\ call.fn = "getUpdatedManifest" /\ ~call.done
  /\ Return(getUpdatedManifest(call.manifest, call.updateContext))

\* getUpdatedManifest called again, with the manifest it returned and the
\* same update context.
CallGetUpdatedManifestAgain ==
  /\ call.fn = "getUpdatedManifest" /\ call.done
  /\ "again" \notin DOMAIN call
  /\ call' = [fn |-> call.fn, done |-> TRUE, args |-> call.args, ret |-> call.ret,
              again |-> getUpdatedManifest(call.ret, call.args.updateContext)]
  /\ UNCHANGED <<envVars, mainVars, gitVars, reportVars>>

\* getTags takes no parameter: an argument passed to it is ignored.
CallGetTags ==
  /\ call.fn = "getTags" /\ ~call.done
  /\ Return(getTags(call.stdout))

CallGetPackageManifest ==
  /\ call.fn = "getPackageManifest" /\ ~call.done
  /\ Return(getPackageManifest(call.text, call.requiredFields))

CallValidateMonorepoPackageManifest ==
  /\ call.fn = "validateMonorepoPackageManifest" /\ ~call.done
  /\ Return(validateMonorepoPackageManifest(call.manifest))

NextFn ==
  \/ CallValidateActionInputs
  \/ CallComputeNewVersion
  \/ CallIsMajorSemVerDiff
  \/ CallGetUpdatedManifest
  \/ CallGetUpdatedManifestAgain
  \/ CallGetTags
  \/ CallGetPackageManifest
  \/ CallValidateMonorepoPackageManifest

SpecFn == InitFn /\ [][NextFn]_vars

Returned(fn) == call.fn = fn /\ call.done

\* ------------------------------------------------ the environment of a run

Manifest(name, version) ==
  Obj(<< [key |-> NAME, val |-> Txt(name)], [key |-> VERSION, val |-> version] >>)

\* The directory entries a packages directory may list. "a" and "ab" are
\* two packages, the name of the first a prefix of the second's; "c"
\* declares the name of "a"; "someFile" is a file.
EntryPool ==
  { [dirName |-> <<"a">>, isDirectory |-> TRUE],
    [dirName |-> <<"a", "b">>, isDirectory |-> TRUE],
    [dirName |-> <<"c">>, isDirectory |-> TRUE],
    [dirName |-> <<"someFile">>, isDirectory |-> FALSE] }

ManifestOfEntry(dirName) ==
  CASE dirName = <<"a">> ->
         Assign(Manifest(<<"a">>, Ver(1, 0, 0, "")), <<"dependencies">>,
                Obj(<< [key |-> <<"b">>, val |-> RangeOf(<<"b">>)],
                       [key |-> <<"foo">>, val |-> RangeOf(<<"foo">>)] >>))
    [] dirName = <<"a", "b">> -> Manifest(<<"b">>, Ver(1, 1, 0, ""))
    [] OTHER -> Manifest(<<"a">>, Ver(1, 0, 0, ""))

RootManifests ==
  { Manifest(<<"root">>, Ver(1, 1, 0, "")),
    Manifest(<<"root">>, Prepend("v", Ver(1, 1, 0, ""))) }

\* The inputs of a run: an explicit version (a major, a pre-major and a
\* minor step from 1.1.0, and 1.1.0 itself), a bump type, or nothing.
RunInputs ==
  [BumpType : {EmptyString},
   BumpVersion : {Ver(MaxNum, 0, 0, ""), Ver(MaxNum, 0, 0, "beta"),
                  Ver(1, MaxNum, 0, ""), Ver(1, 1, 0, ""), EmptyString}]
  \cup [BumpType : {Txt(<<"major">>), Txt(<<"Major">>)}, BumpVersion : {EmptyString}]

V100 == Prepend("v", Ver(1, 0, 0, ""))
V110 == Prepend("v", Ver(1, 1, 0, ""))

\* What "git tag" may print.
TagLists == { <<>>, <<V100>>, <<V100, V110>>, <<V100, Txt(<<"foo">>)>> }

TagPool == {V100, V110}

PathIn(dirName) == Txt(Join(Join(PACKAGES_DIR, dirName), <<"file.txt">>))

\* What "git diff" may print: nothing, a file of package "a", a file of
\* package "ab".
DiffPool == { <<>>, <<PathIn(<<"a">>)>>, <<PathIn(<<"a", "b">>)>> }

packagesPath == Join(WORKSPACE_ROOT, PACKAGES_DIR)

ManifestPath(dirPath) == Join(dirPath, PACKAGE_JSON)

Init ==
  /\ call = [fn |-> "none", done |-> FALSE]
  /\ actionInput \in RunInputs
  /\ packagesDirContents \in {S \in SUBSET EntryPool : Cardinality(S) <= MaxEntries}
  /\ \E root \in RootManifests :
       files =
         [path \in {ManifestPath(WORKSPACE_ROOT)} \cup
                   {ManifestPath(Join(packagesPath, e.dirName)) :
                      e \in {x \in packagesDirContents : x.isDirectory}} |->
            IF path = ManifestPath(WORKSPACE_ROOT) THEN FileText(root)
            ELSE FileText(ManifestOfEntry(
                   (CHOOSE e \in packagesDirContents :
                      path = ManifestPath(Join(packagesPath, e.dirName))).dirName))]
  /\ repoTags \in TagLists
  /\ repoDiff \in [TagPool -> DiffPool]
  /\ InitProgram

\* ------------------------------------------------------------- the run

\* A continuation that needs no input or output is queued: it runs before
\* any input or output completes.
MicrotaskPending ==
  \/ pc \in {"getPackagesToUpdate", "updatePackages"}
  \/ \E n \in DOMAIN calls : calls[n].pc = "resumeInit"

\* main().catch((error) => setActionToFailed(error))
Fail(error) == pc' = "failed" /\ failure' = error

\* main up to its first await: getActionInputs, then the read of the root
\* manifest is started.
MainStart ==
  /\ pc = "start"
  /\ LET inputs == [BumpType |-> OrNull(actionInput.BumpType),
                    BumpVersion |-> OrNull(actionInput.BumpVersion)]
         valid == validateActionInputs(inputs)
     IN
     IF valid # "ok"
     THEN Fail(valid) /\ UNCHANGED actionInputs
     ELSE pc' = "readRoot" /\ actionInputs' = inputs /\ UNCHANGED failure
  /\ UNCHANGED <<call, envVars, reportVars, gitVars, rootManifest, newVersion, versionDiff,
                 tasks, allPackages, packagesToUpdate, writers, writeCount, files>>

\* The root manifest was read: getPackageManifest validates its version,
\* main computes the new version and starts getPackagesMetadata's readdir.
RootReadComplete ==
  /\ pc = "readRoot"
  /\ LET manifest == JSONparse(files[ManifestPath(WORKSPACE_ROOT)])
         valid == validatePackageManifest(manifest, {VERSION})
     IN
     IF valid # "ok"
     THEN Fail(valid) /\ UNCHANGED <<rootManifest, newVersion, versionDiff>>
     ELSE LET r == computeNewVersion(Get(manifest, VERSION), actionInputs) IN
          /\ rootManifest' = manifest
          /\ newVersion' = r.newVersion
          /\ versionDiff' = r.versionDiff
          /\ pc' = "readdir"
          /\ UNCHANGED failure
  /\ UNCHANGED <<call, envVars, reportVars, gitVars, actionInputs, tasks, allPackages,
                 packagesToUpdate, writers, writeCount, files>>

\* readdir returned: every entry's manifest read is started; Promise.all
\* of no entries resolves at once.
ReaddirComplete ==
  /\ pc = "readdir"
  /\ tasks' = [e \in packagesDirContents |-> [pc |-> "readManifest", manifest |-> Null]]
  /\ pc' = IF packagesDirContents = {} THEN "getPackagesToUpdate" ELSE "discover"
  /\ UNCHANGED <<call, envVars, reportVars, gitVars, failure, actionInputs, rootManifest,
                 newVersion, versionDiff, allPackages, packagesToUpdate, writers,
                 writeCount, files>>

\* An entry's manifest read ended: the read fails for an entry that is no
\* directory, the manifest is validated, then lstat is started. The first
\* rejection rejects Promise.all, and main with it.
ManifestReadComplete(e) ==
  /\ e \in DOMAIN tasks
  /\ tasks[e].pc = "readManifest"
  /\ ~MicrotaskPending
  /\ LET path == ManifestPath(Join(packagesPath, e.dirName))
         error == IF path \notin DOMAIN files THEN "ENOTDIR"
                  ELSE validatePackageManifest(JSONparse(files[path]), {NAME, VERSION})
     IN
     IF error # "ok"
     THEN /\ tasks' = [tasks EXCEPT ![e].pc = "rejected"]
          /\ IF pc = "discover" THEN Fail(error) ELSE UNCHANGED <<pc, failure>>
     ELSE /\ tasks' = [tasks EXCEPT ![e] = [pc |-> "lstat",
                                            manifest |-> JSONparse(files[path])]]
          /\ UNCHANGED <<pc, failure>>
  /\ UNCHANGED <<call, envVars, reportVars, gitVars, actionInputs, rootManifest, newVersion,
                 versionDiff, allPackages, packagesToUpdate, writers, writeCount,
                 files>>

\* An entry's lstat returned: a directory is recorded under its manifest's
\* name. When every callback has returned, main goes on.
LstatComplete(e) ==
  /\ e \in DOMAIN tasks
  /\ tasks[e].pc = "lstat"
  /\ ~MicrotaskPending
  /\ allPackages' =
       IF e.isDirectory
       THEN Assign(allPackages, Get(tasks[e].manifest, NAME).s,
                   PackageMetadata(packagesPath, e.dirName, tasks[e].manifest))
       ELSE allPackages
  /\ tasks' = [tasks EXCEPT ![e].pc = "done"]
  /\ pc' = IF pc = "discover" /\ \A x \in DOMAIN tasks : tasks'[x].pc = "done"
           THEN "getPackagesToUpdate" ELSE pc
  /\ UNCHANGED <<call, envVars, reportVars, gitVars, failure, actionInputs, rootManifest,
                 newVersion, versionDiff, packagesToUpdate, writers, writeCount,
                 files>>

\* A call of didPackageChange: where it stands, what it answered, the
\* tags it tested its tag against and the diffs stored at that moment
\* (checked is FALSE before the test), whether it ran "git diff", and the
\* diff performDiff returned to it (null before).
NewCall(at) ==
  [pc |-> at, result |-> "none", checked |-> FALSE, tagsAtCheck |-> Null,
   diffsAtCheck |-> <<>>, ranDiff |-> FALSE, diff |-> Null]

\* An initialization that never raises the flag: every call runs "git tag".
\* C27 is checked against it.
initializeGitUnflagged(initialized) ==
  [INITIALIZED_GIT |-> initialized, pc |-> "gitTag"]

\* initializeGit up to its await: the first call raises the flag and runs
\* "git tag"; a later call returns at once, whether the tags arrived or not.
initializeGit(initialized) ==
  IF ~initialized
  THEN [INITIALIZED_GIT |-> TRUE, pc |-> "gitTag"]
  ELSE [INITIALIZED_GIT |-> initialized, pc |-> "resumeInit"]

RECURSIVE StartCallbacks(_, _, _)
\* Array.prototype.filter calls the callback for every key, in order; each
\* call runs didPackageChange up to the await of initializeGit.
StartCallbacks(keys, i, git) ==
  IF i > Len(keys) THEN git
  ELSE LET g == initializeGit(git.INITIALIZED_GIT) IN
       StartCallbacks(keys, i + 1,
         [INITIALIZED_GIT |-> g.INITIALIZED_GIT,
          calls |-> (keys[i] :> NewCall(g.pc)) @@ git.calls,
          tagQueries |-> git.tagQueries + (IF g.pc = "gitTag" THEN 1 ELSE 0)])

\* A selection that asks the change detector under every version diff. C2
\* is checked against it.
filterUnderEveryDiff(packages, diff, git) ==
  [packages |-> {Keys(packages)[i] : i \in {j \in 1..Len(packages.e) : Truthy(Promise)}},
   git |-> StartCallbacks(Keys(packages), 1, git)]

\* getPackagesToUpdate: the names it returns and the git state it leaves.
\* The filter keeps a key when its callback's return value is truthy, and
\* an async callback returns a Promise.
getPackagesToUpdate(packages, diff, git) ==
  IF isMajorSemVerDiff(diff)
  THEN [packages |-> KeySet(packages), git |-> git]
  ELSE [packages |-> {Keys(packages)[i] : i \in {j \in 1..Len(packages.e) : Truthy(Promise)}},
        git |-> StartCallbacks(Keys(packages), 1, git)]

\* main after getPackagesMetadata: getPackagesToUpdate runs to its return
\* without waiting for anything. A null versionDiff has no includes().
GetPackagesToUpdate ==
  /\ pc = "getPackagesToUpdate"
  /\ IF versionDiff = Null
     THEN /\ Fail("TypeError")
          /\ UNCHANGED <<packagesToUpdate, gitVars>>
     ELSE LET r == getPackagesToUpdate(allPackages, versionDiff,
                     [INITIALIZED_GIT |-> INITIALIZED_GIT, calls |-> calls,
                      tagQueries |-> tagQueries])
          IN
          /\ packagesToUpdate' = r.packages
          /\ INITIALIZED_GIT' = r.git.INITIALIZED_GIT
          /\ calls' = r.git.calls
          /\ tagQueries' = r.git.tagQueries
          /\ pc' = "updatePackages"
          /\ UNCHANGED <<failure, TAGS, DIFFS, diffQueries>>
  /\ UNCHANGED <<call, envVars, reportVars, actionInputs, rootManifest, newVersion, versionDiff,
                 tasks, allPackages, writers, writeCount, files>>

\* updatePackage up to its await: the write it starts.
updatePackage(packageMetadata, updateContext) ==
  [pc |-> "write",
   path |-> Join(packageMetadata.path, PACKAGE_JSON),
   text |-> JSONstringify(getUpdatedManifest(packageMetadata.manifest, updateContext), 2)]

\* An update of every package of the workspace, in packagesToUpdate or
\* not. C19 is checked against it.
updateEveryPackage(packages, updateContext) ==
  [n \in KeySet(packages) |-> updatePackage(Get(packages, n), updateContext)]

\* updatePackages up to its await: the writes it starts, by package name.
updatePackages(packages, updateContext) ==
  [n \in updateContext.packagesToUpdate |->
     updatePackage(Get(packages, n), updateContext)]

\* updatePackages: a write of the updated manifest is started for every
\* package to update; Promise.all of no writes resolves at once.
UpdatePackages ==
  /\ pc = "updatePackages"
  /\ writers' = updatePackages(allPackages,
                               [newVersion |-> newVersion,
                                packagesToUpdate |-> packagesToUpdate,
                                versionDiff |-> versionDiff])
  /\ pc' = IF packagesToUpdate = {} THEN "done" ELSE "awaitWrites"
  /\ UNCHANGED <<call, envVars, reportVars, gitVars, failure, actionInputs, rootManifest,
                 newVersion, versionDiff, tasks, allPackages, packagesToUpdate,
                 writeCount, files>>

\* A manifest write ended.
WriteComplete(n) ==
  /\ n \in DOMAIN writers
  /\ writers[n].pc = "write"
  /\ ~MicrotaskPending
  /\ files' = (writers[n].path :> writers[n].text) @@ files
  /\ writeCount' = (writers[n].path :>
                      (IF writers[n].path \in DOMAIN writeCount
                       THEN writeCount[writers[n].path] + 1 ELSE 1)) @@ writeCount
  /\ writers' = [writers EXCEPT ![n].pc = "done"]
  /\ pc' = IF pc = "awaitWrites" /\ \A x \in DOMAIN writers : writers'[x].pc = "done"
           THEN "done" ELSE pc
  /\ UNCHANGED <<call, envVars, reportVars, gitVars, failure, actionInputs, rootManifest,
                 newVersion, versionDiff, tasks, allPackages, packagesToUpdate>>

\* didPackageChange of package n after its await of initializeGit, with
\* the tags as they are now.
AfterInitializeGit(n, tags) ==
  LET packageData == Get(allPackages, n)
      r == didPackageChange(packageData, tags, DIFFS)
      tag == versionToTag(Get(packageData.manifest, VERSION))
  IN
  /\ calls' = [calls EXCEPT ![n] = [pc |-> r.pc, result |-> r.result,
                                    checked |-> TRUE, tagsAtCheck |-> tags,
                                    diffsAtCheck |-> DIFFS,
                                    ranDiff |-> r.pc = "gitDiff",
                                    diff |-> IF r.pc = "resolved"
                                             THEN [k |-> "arr", e |-> DIFFS[tag]]
                                             ELSE Null]]
  /\ diffQueries' =
       IF r.pc = "gitDiff"
       THEN (tag :> (IF tag \in DOMAIN diffQueries THEN diffQueries[tag] + 1 ELSE 1))
              @@ diffQueries
       ELSE diffQueries

\* A call that found the flag raised goes on without waiting.
ResumeInit(n) ==
  /\ n \in DOMAIN calls
  /\ calls[n].pc = "resumeInit"
  /\ AfterInitializeGit(n, TAGS)
  /\ UNCHANGED <<call, envVars, reportVars, mainVars, INITIALIZED_GIT, TAGS, DIFFS, tagQueries>>

\* "git tag" returned to the call that initializes git.
GitTagComplete(n) ==
  /\ n \in DOMAIN calls
  /\ calls[n].pc = "gitTag"
  /\ ~MicrotaskPending
  /\ LET t == getTags(repoTags) IN
     IF t.error # "none"
     THEN /\ calls' = [calls EXCEPT ![n].pc = "rejected", ![n].result = t.error]
          /\ UNCHANGED <<TAGS, diffQueries>>
     ELSE /\ TAGS' = [k |-> "arr", e |-> t.allTags]
          /\ AfterInitializeGit(n, TAGS')
  /\ UNCHANGED <<call, envVars, reportVars, mainVars, INITIALIZED_GIT, DIFFS, tagQueries>>

\* "git diff" returned to a call: performDiff stores the diff of the tag
\* and hasDiff answers from it.
GitDiffComplete(n) ==
  /\ n \in DOMAIN calls
  /\ calls[n].pc = "gitDiff"
  /\ ~MicrotaskPending
  /\ LET packageData == Get(allPackages, n)
         tag == versionToTag(Get(packageData.manifest, VERSION))
         diff == SplitLines(repoDiff[tag])
     IN
     /\ DIFFS' = (tag :> diff) @@ DIFFS
     /\ calls' = [calls EXCEPT ![n].pc = "resolved",
                               ![n].diff = [k |-> "arr", e |-> diff],
                               ![n].result = IF hasDiff(packageData, diff, PACKAGES_DIR)
                                             THEN "true" ELSE "false"]
  /\ UNCHANGED <<call, envVars, reportVars, mainVars, INITIALIZED_GIT, TAGS, tagQueries,
                 diffQueries>>

Next ==
  \/ MainStart
  \/ RootReadComplete
  \/ ReaddirComplete
  \/ \E e \in EntryPool : ManifestReadComplete(e)
  \/ \E e \in EntryPool : LstatComplete(e)
  \/ GetPackagesToUpdate
  \/ UpdatePackages
  \/ \E n \in WorkspaceNames : WriteComplete(n)
  \/ \E n \in WorkspaceNames : ResumeInit(n)
  \/ \E n \in WorkspaceNames : GitTagComplete(n)
  \/ \E n \in WorkspaceNames : GitDiffComplete(n)

Spec == Init /\ [][Next]_vars

\* ------------------------------------- the git operations under any caller

\* A workspace of three packages: "a" and "d" are at version 1.0.0 (one
\* tag for both), "b", in the directory "ab", is at version 1.1.0.
GitPackages ==
  Obj(<< [key |-> <<"a">>,
          val |-> PackageMetadata(packagesPath, <<"a">>, ManifestOfEntry(<<"a">>))],
         [key |-> <<"b">>,
          val |-> PackageMetadata(packagesPath, <<"a", "b">>,
                                  ManifestOfEntry(<<"a", "b">>))],
         [key |-> <<"d">>,
          val |-> PackageMetadata(packagesPath, <<"d">>,
                                  Manifest(<<"d">>, Ver(1, 0, 0, "")))] >>)

\* The module is loaded and nothing was called.
InitGit ==
  /\ call = [fn |-> "none", done |-> FALSE]
  /\ actionInput = [BumpType |-> EmptyString, BumpVersion |-> EmptyString]
  /\ files = <<>>
  /\ packagesDirContents = {}
  /\ repoTags \in TagLists
  /\ repoDiff \in [TagPool -> DiffPool]
  /\ pc = "start"
  /\ failure = "none"
  /\ actionInputs = Null
  /\ rootManifest = Null
  /\ newVersion = Null
  /\ versionDiff = Null
  /\ tasks = <<>>
  /\ allPackages = GitPackages
  /\ packagesToUpdate = {}
  /\ writers = <<>>
  /\ writeCount = <<>>
  /\ INITIALIZED_GIT = FALSE
  /\ TAGS = Null
  /\ DIFFS = <<>>
  /\ calls = <<>>
  /\ tagQueries = 0
  /\ diffQueries = <<>>
  /\ outputs = <<>>
  /\ changelog = NoChangelog

\* A caller calls didPackageChange for package n, whose previous call (if
\* any) has ended: the call runs up to its await of initializeGit.
StartDidPackageChange(n) ==
  /\ n \in KeySet(allPackages)
  /\ n \in DOMAIN calls => calls[n].pc \in {"resolved", "rejected"}
  /\ LET g == initializeGit(INITIALIZED_GIT) IN
     /\ INITIALIZED_GIT' = g.INITIALIZED_GIT
     /\ calls' = (n :> NewCall(g.pc)) @@ calls
     /\ tagQueries' = tagQueries + (IF g.pc = "gitTag" THEN 1 ELSE 0)
  /\ UNCHANGED <<call, envVars, reportVars, mainVars, TAGS, DIFFS, diffQueries>>

NextGit ==
  \/ \E n \in KeySet(GitPackages) : StartDidPackageChange(n)
  \/ \E n \in KeySet(GitPackages) : ResumeInit(n)
  \/ \E n \in KeySet(GitPackages) : GitTagComplete(n)
  \/ \E n \in KeySet(GitPackages) : GitDiffComplete(n)

SpecGit == InitGit /\ [][NextGit]_vars

\* --------------------------------------------- updatePackages on its own

\* main is about to call updatePackages, for any set of packages to update
\* among the packages of the workspace.
InitUpdatePackages ==
  /\ call = [fn |-> "none", done |-> FALSE]
  /\ actionInput = [BumpType |-> EmptyString, BumpVersion |-> EmptyString]
  /\ packagesDirContents = {}
  /\ repoTags = <<>>
  /\ repoDiff = <<>>
  /\ pc = "updatePackages"
  /\ failure = "none"
  /\ actionInputs = Null
  /\ rootManifest = Null
  /\ \E context \in UpdateContextInputs :
       /\ newVersion \in {context.newVersion, Ver(1, 0, 0, "")}
       /\ versionDiff = context.versionDiff
  /\ tasks = <<>>
  /\ allPackages = GitPackages
  /\ packagesToUpdate \in SUBSET KeySet(GitPackages)
  /\ writers = <<>>
  /\ writeCount = <<>>
  /\ files = [path \in {ManifestPath(GitPackages.e[i].val.path) :
                          i \in 1..Len(GitPackages.e)} |->
                FileText(GitPackages.e[CHOOSE i \in 1..Len(GitPackages.e) :
                           path = ManifestPath(GitPackages.e[i].val.path)].val.manifest)]
  /\ INITIALIZED_GIT = FALSE
  /\ TAGS = Null
  /\ DIFFS = <<>>
  /\ calls = <<>>
  /\ tagQueries = 0
  /\ diffQueries = <<>>
  /\ outputs = <<>>

InitUpdate == InitUpdatePackages /\ changelog = NoChangelog

NextUpdate ==
  \/ UpdatePackages
  \/ \E n \in KeySet(GitPackages) : WriteComplete(n)

SpecUpdate == InitUpdate /\ [][NextUpdate]_vars

\* --------------------------------- the changelog step of updatePackage

REPOSITORY_URL == Txt(<<"https://fake">>)
CHANGELOG_READ_ERROR == "ChangelogReadError"

\* The text of the changelog file of a package directory.
ChangelogContent(path) == Txt(<<"changelog of">> \o path)

\* The changelog formatter, an opaque collaborator: the text it returns is
\* known by the arguments it was given.
updateChangelog(args) == [k |-> "txt", formatted |-> args]

\* The changelog step of updatePackage up to its await: the read of the
\* existing changelog it starts.
updatePackageChangelog(packageMetadata, updateSpecification) ==
  [pc |-> "read", path |-> packageMetadata.path, result |-> Null]

\* The changelog steps started for every package whether or not changelog
\* updates are requested. C23 is checked against it.
startChangelogStepsUnasked(packages, updateSpecification) ==
  [n \in updateSpecification.packagesToUpdate |->
     updatePackageChangelog(Get(packages, n), updateSpecification)]

\* The changelog steps an update starts: one for each package to update
\* when changelog updates are requested, none otherwise.
startChangelogSteps(packages, updateSpecification) ==
  IF updateSpecification.shouldUpdateChangelog
  THEN [n \in updateSpecification.packagesToUpdate |->
          updatePackageChangelog(Get(packages, n), updateSpecification)]
  ELSE <<>>

\* The arguments the formatter is given for a package.
FormatterArguments(step, content, updateSpecification) ==
  [changelogContent |-> content,
   currentVersion |-> updateSpecification.newVersion,
   isReleaseCandidate |-> TRUE,
   projectRootDirectory |-> step.path,
   repoUrl |-> updateSpecification.repositoryUrl]

\* The changelog step after its read: a failed read is logged and raised
\* again and the formatter is left alone; after a successful read the
\* formatter is invoked and the write of the text it returns is started.
\* The outcome is the step, the formatter's invocations and the log.
afterChangelogRead(step, readable, updateSpecification, formatterCalls, logged) ==
  IF ~readable
  THEN [step |-> [step EXCEPT !.pc = "rejected", !.result = CHANGELOG_READ_ERROR],
        formatterCalls |-> formatterCalls,
        logged |-> Append(logged, <<"Failed to read changelog", step.path>>)]
  ELSE LET args == FormatterArguments(step, ChangelogContent(step.path),
                                      updateSpecification)
       IN [step |-> [step EXCEPT !.pc = "write", !.result = updateChangelog(args)],
           formatterCalls |-> Append(formatterCalls, args),
           logged |-> logged]

UpdateSpecification ==
  [newVersion |-> newVersion,
   packagesToUpdate |-> packagesToUpdate,
   repositoryUrl |-> changelog.repositoryUrl,
   shouldUpdateChangelog |-> changelog.shouldUpdateChangelog]

InitChangelog ==
  /\ InitUpdatePackages
  /\ \E flag \in BOOLEAN, readable \in [KeySet(GitPackages) -> BOOLEAN] :
       changelog = [shouldUpdateChangelog |-> flag,
                    repositoryUrl |-> REPOSITORY_URL,
                    readable |-> readable,
                    started |-> FALSE,
                    steps |-> <<>>,
                    formatterCalls |-> <<>>,
                    logged |-> <<>>,
                    written |-> <<>>]

\* updatePackages starts the changelog step of every package to update.
StartChangelogSteps ==
  /\ ~changelog.started
  /\ changelog' = [changelog EXCEPT
                     !.started = TRUE,
                     !.steps = startChangelogSteps(allPackages, UpdateSpecification)]
  /\ UNCHANGED <<call, envVars, mainVars, gitVars, outputs>>

\* The read of a package's changelog ended.
ChangelogReadComplete(n) ==
  /\ n \in DOMAIN changelog.steps
  /\ changelog.steps[n].pc = "read"
  /\ LET r == afterChangelogRead(changelog.steps[n], changelog.readable[n],
                                 UpdateSpecification, changelog.formatterCalls,
                                 changelog.logged)
     IN changelog' = [changelog EXCEPT !.steps[n] = r.step,
                                       !.formatterCalls = r.formatterCalls,
                                       !.logged = r.logged]
  /\ UNCHANGED <<call, envVars, mainVars, gitVars, outputs>>

\* The write of a package's new changelog ended.
ChangelogWriteComplete(n) ==
  /\ n \in DOMAIN changelog.steps
  /\ changelog.steps[n].pc = "write"
  /\ changelog' = [changelog EXCEPT
                     !.steps[n].pc = "done",
                     !.written = (changelog.steps[n].path :> changelog.steps[n].result)
                                   @@ changelog.written]
  /\ UNCHANGED <<call, envVars, mainVars, gitVars, outputs>>

NextChangelog ==
  \/ StartChangelogSteps
  \/ \E n \in KeySet(GitPackages) : ChangelogReadComplete(n)
  \/ \E n \in KeySet(GitPackages) : ChangelogWriteComplete(n)

SpecChangelog == InitChangelog /\ [][NextChangelog]_vars

\* ------------------------------------------------------------- claims

MAJOR == Txt(<<"major">>)
MINOR == Txt(<<"minor">>)
PATCH == Txt(<<"patch">>)
PREMAJOR == Txt(<<"pre", "major">>)

\* The categories under which the code synchronizes.
SyncCategories == {MAJOR, PREMAJOR}

\* C4 as stated: the synchronization flag is true exactly when the
\* category is major, for every category among major, minor, patch and the
\* pre-release categories.
C4_SyncIffMajor ==
  Returned("isMajorSemVerDiff") => (call.ret <=> call.args.diff = MAJOR)

\* C4 as amended: the synchronization flag is true exactly when the
\* category is major or premajor; it is false for minor, patch, preminor,
\* prepatch and prerelease.
C4_SyncIffMajorOrPremajor ==
  Returned("isMajorSemVerDiff") => (call.ret <=> call.args.diff \in SyncCategories)

C4_Witness ==
  Returned("isMajorSemVerDiff") /\ call.args.diff = PREMAJOR /\ call.ret

DependencyGroups == {PackageDependencyFields[i] : i \in 1..Len(PackageDependencyFields)}

\* C5: with synchronization enabled, getUpdatedManifest rewrites, in every
\* dependency group the manifest has, each entry whose name is in
\* packagesToUpdate to "^" + newVersion, leaves every other entry as it
\* was, keeps the entries' order, and adds no group (or other key) that the
\* input did not have.
C5_SyncRewritesUpdatedDependencies ==
  (Returned("getUpdatedManifest")
     /\ call.args.updateContext.versionDiff \in SyncCategories) =>
    LET m == call.args.manifest
        ctx == call.args.updateContext
    IN
    /\ Keys(call.ret) = Keys(m)
    /\ \A g \in DependencyGroups \cap KeySet(m) :
         /\ Keys(Get(call.ret, g)) = Keys(Get(m, g))
         /\ \A d \in KeySet(Get(m, g)) :
              Get(Get(call.ret, g), d) =
                IF d \in ctx.packagesToUpdate
                THEN Prepend("^", ctx.newVersion)
                ELSE Get(Get(m, g), d)

C5_Witness ==
  /\ Returned("getUpdatedManifest")
  /\ call.args.updateContext.versionDiff \in SyncCategories
  /\ call.args.updateContext.packagesToUpdate = {<<"a">>}
  /\ Keys(call.args.manifest) = <<NAME, <<"devDependencies">>, VERSION, <<"dependencies">> >>
  /\ Keys(Get(call.args.manifest, <<"dependencies">>)) = << <<"foo">>, <<"a">> >>
  /\ Keys(Get(call.args.manifest, <<"devDependencies">>)) = << <<"b">>, <<"a">> >>
  /\ Get(Get(call.ret, <<"dependencies">>), <<"a">>)
       = Prepend("^", call.args.updateContext.newVersion)
  /\ Get(Get(call.ret, <<"devDependencies">>), <<"b">>) = RangeOf(<<"b">>)

\* C6: with synchronization disabled, getUpdatedManifest changes the
\* version field only: the output has the input's keys in the input's
\* order, version = newVersion, and every other field (the dependency
\* groups included, even those naming packages in packagesToUpdate) as in
\* the input.
C6_NoSyncChangesVersionOnly ==
  (Returned("getUpdatedManifest")
     /\ call.args.updateContext.versionDiff \notin SyncCategories) =>
    LET m == call.args.manifest IN
    /\ Keys(call.ret) = Keys(m)
    /\ Get(call.ret, VERSION) = call.args.updateContext.newVersion
    /\ \A key \in KeySet(m) \ {VERSION} : Get(call.ret, key) = Get(m, key)

C6_Witness ==
  /\ Returned("getUpdatedManifest")
  /\ call.args.updateContext.versionDiff = MINOR
  /\ call.args.updateContext.packagesToUpdate = WorkspaceNames
  /\ HasOwn(call.args.manifest, <<"dependencies">>)
  /\ HasOwn(Get(call.args.manifest, <<"dependencies">>), <<"b">>)
  /\ Get(call.ret, <<"dependencies">>) = Get(call.args.manifest, <<"dependencies">>)
  /\ Get(call.ret, VERSION) # Get(call.args.manifest, VERSION)

\* Semantic-version precedence: v1 < v2.
Precedes(v1, v2) ==
  \/ v1.maj < v2.maj
  \/ v1.maj = v2.maj /\ v1.min < v2.min
  \/ v1.maj = v2.maj /\ v1.min = v2.min /\ v1.pat < v2.pat
  \/ v1.maj = v2.maj /\ v1.min = v2.min /\ v1.pat = v2.pat
       /\ v1.pre # "" /\ v2.pre = ""

\* The release versions a release-type token can produce: the components
\* below the named one are 0.
ReleasesOf(token) ==
  {Ver(maj, min, pat, "") :
     maj \in 0..(MaxNum + 1),
     min \in IF token = MAJOR THEN {0} ELSE 0..(MaxNum + 1),
     pat \in IF token = PATCH THEN 0..(MaxNum + 1) ELSE {0}}

\* C7 as stated: for a release-type token the named component is
\* incremented and the components below it are reset; an explicit target
\* version is returned verbatim.
C7_IncrementsNamedComponent ==
  Returned("computeNewVersion") =>
    LET cur == call.args.currentVersion
        token == call.args.inputs.BumpType
        new == call.ret.newVersion
    IN
    /\ token = MAJOR => new = Ver(cur.maj + 1, 0, 0, "")
    /\ token = MINOR => new = Ver(cur.maj, cur.min + 1, 0, "")
    /\ token = PATCH => new = Ver(cur.maj, cur.min, cur.pat + 1, "")
    /\ token = Null => new = call.args.inputs.BumpVersion

\* C7 as amended: for a release-type token the result is the smallest
\* release version above the current version with the components below
\* the named one at 0. For a current version without a pre-release segment
\* that is the named component incremented and the lower ones reset; for
\* one with a pre-release segment the segment is dropped and the named
\* component is incremented only if a component below it is not 0. An
\* explicit target version is returned verbatim.
C7_SmallestReleaseAbove ==
  Returned("computeNewVersion") =>
    LET cur == call.args.currentVersion
        token == call.args.inputs.BumpType
        new == call.ret.newVersion
    IN
    /\ token \in ReleaseTokens =>
         /\ new \in ReleasesOf(token)
         /\ Precedes(cur, new)
         /\ \A r \in ReleasesOf(token) : Precedes(cur, r) => ~Precedes(r, new)
    /\ (token \in ReleaseTokens /\ cur.pre = "") =>
         new = CASE token = MAJOR -> Ver(cur.maj + 1, 0, 0, "")
                 [] token = MINOR -> Ver(cur.maj, cur.min + 1, 0, "")
                 [] token = PATCH -> Ver(cur.maj, cur.min, cur.pat + 1, "")
    /\ (token \in ReleaseTokens /\ cur.pre # "") =>
         new = CASE token = MAJOR ->
                      IF cur.min # 0 \/ cur.pat # 0
                      THEN Ver(cur.maj + 1, 0, 0, "") ELSE Ver(cur.maj, 0, 0, "")
                 [] token = MINOR ->
                      IF cur.pat # 0
                      THEN Ver(cur.maj, cur.min + 1, 0, "") ELSE Ver(cur.maj, cur.min, 0, "")
                 [] token = PATCH -> Ver(cur.maj, cur.min, cur.pat, "")
    /\ token = Null => new = call.args.inputs.BumpVersion

C7_Witness ==
  /\ Returned("computeNewVersion")
  /\ call.args.inputs.BumpType = PATCH
  /\ call.args.currentVersion = Ver(1, 0, 0, "beta")
  /\ call.ret.newVersion = Ver(1, 0, 0, "")

\* C8 as stated: validation succeeds exactly when one of the two inputs is
\* supplied, a supplied release type is major, minor or patch, and a
\* supplied release version is a valid unprefixed semantic version.
C8_AcceptsExactlyWellFormedInputs ==
  Returned("validateActionInputs") =>
    LET type == call.args.inputs.BumpType
        version == call.args.inputs.BumpVersion
    IN
    call.ret = "ok" <=>
      \/ Truthy(type) /\ ~Truthy(version) /\ type \in ReleaseTokens
      \/ ~Truthy(type) /\ Truthy(version) /\ version.k = "ver" /\ version.pfx = <<>>


\* main is past getPackagesToUpdate, which returned packagesToUpdate.
GetPackagesToUpdateReturned == pc \in {"updatePackages", "awaitWrites", "done"}

\* C1 as stated: with synchronization disabled, a package is in the result
\* of getPackagesToUpdate if and only if didPackageChange answered true for
\* it.
C1_ReturnsExactlyChangedPackages ==
  GetPackagesToUpdateReturned =>
    \A n \in DOMAIN calls :
      calls[n].pc = "resolved" =>
        (n \in packagesToUpdate <=> calls[n].result = "true")

\* C2: with synchronization enabled, getPackagesToUpdate returns the name
\* of every package of the workspace, whatever "git tag" and "git diff"
\* would print, and no call of didPackageChange and no git command is
\* started.
C2_SyncReturnsAllWithoutChangeDetection ==
  (GetPackagesToUpdateReturned /\ versionDiff \in SyncCategories) =>
    /\ packagesToUpdate = KeySet(allPackages)
    /\ DOMAIN calls = {}
    /\ ~INITIALIZED_GIT
    /\ tagQueries = 0
    /\ DOMAIN diffQueries = {}

C2_Witness ==
  /\ GetPackagesToUpdateReturned
  /\ versionDiff = MAJOR
  /\ repoTags = <<>>
  /\ packagesToUpdate = WorkspaceNames
  /\ DOMAIN calls = {}

\* C3 as stated: getPackagesToUpdate never returns an empty set as a
\* success.
C3_NeverReturnsEmptySet ==
  GetPackagesToUpdateReturned => packagesToUpdate # {}

\* The tag of the current manifest version of package n.
TagOf(n) == versionToTag(Get(Get(allPackages, n).manifest, VERSION))

\* The tags of a loaded tag list.
TagSet(tags) == {tags.e[i] : i \in 1..Len(tags.e)}

\* C9: a call of didPackageChange that finds the tag of the package's
\* manifest version missing from the loaded tags fails with the "no
\* corresponding tag" error, has not run "git diff" and never answers true
\* or false; no "git diff" is run for a tag that is not among the tags.
C9_MissingTagFailsWithoutDiff ==
  /\ \A n \in DOMAIN calls :
       (calls[n].checked /\ calls[n].tagsAtCheck # Null
          /\ TagOf(n) \notin TagSet(calls[n].tagsAtCheck)) =>
         /\ calls[n].pc = "rejected"
         /\ calls[n].result = "NoCorrespondingTag"
         /\ ~calls[n].ranDiff
  /\ TAGS # Null => DOMAIN diffQueries \subseteq TagSet(TAGS)

C9_Witness ==
  \E n \in DOMAIN calls :
    /\ calls[n].checked
    /\ calls[n].tagsAtCheck = [k |-> "arr", e |-> <<V100>>]
    /\ TagOf(n) = V110
    /\ calls[n].result = "NoCorrespondingTag"
    /\ DOMAIN diffQueries = {}

\* path lies under the directory dir: dir, a separator, and more.
LiesUnder(path, dir) == StartsWith(path, dir \o <<"/">>)

\* C10 as stated: when the tag exists, didPackageChange answers true if
\* and only if a path of the diff since the tag lies under the package's
\* own directory packagesDir/dirName.
C10_TrueIffPathUnderOwnDirectory ==
  \A n \in DOMAIN calls :
    calls[n].pc = "resolved" =>
      (calls[n].result = "true" <=>
         \E i \in 1..Len(repoDiff[TagOf(n)]) :
           LiesUnder(repoDiff[TagOf(n)][i].s,
                     Join(PACKAGES_DIR, Get(allPackages, n).dirName)))

\* A call of didPackageChange has ended.
Ended(c) == c.pc \in {"resolved", "rejected"}

\* C11 as stated: when "git tag" prints no tag, every call of
\* didPackageChange answers true and no "git diff" is run.
C11_NoTagsMeansChanged ==
  repoTags = <<>> =>
    /\ \A n \in DOMAIN calls :
         Ended(calls[n]) => (calls[n].result = "true" /\ ~calls[n].ranDiff)
    /\ DOMAIN diffQueries = {}

\* C12: a call of didPackageChange that reaches performDiff when the diff
\* of its tag is stored (an earlier call for the tag has completed) runs no
\* "git diff" and is answered from the stored list, which is the list
\* "git diff" printed for the tag; two calls for one tag are returned the
\* same list.
C12_DiffMemoizedPerTag ==
  /\ \A n \in DOMAIN calls :
       (calls[n].checked /\ calls[n].tagsAtCheck # Null
          /\ TagOf(n) \in TagSet(calls[n].tagsAtCheck)
          /\ TagOf(n) \in DOMAIN calls[n].diffsAtCheck) =>
         /\ ~calls[n].ranDiff
         /\ calls[n].pc = "resolved"
         /\ calls[n].diff = [k |-> "arr", e |-> calls[n].diffsAtCheck[TagOf(n)]]
         /\ calls[n].diff.e = SplitLines(repoDiff[TagOf(n)])
  /\ \A n, m \in DOMAIN calls :
       (TagOf(n) = TagOf(m) /\ calls[n].diff # Null /\ calls[m].diff # Null) =>
         calls[n].diff = calls[m].diff

C12_Witness ==
  \E n \in DOMAIN calls :
    /\ calls[n].checked
    /\ TagOf(n) \in DOMAIN calls[n].diffsAtCheck
    /\ calls[n].pc = "resolved"
    /\ calls[n].result = "true"
    /\ ~calls[n].ranDiff
    /\ diffQueries[TagOf(n)] = 1

\* C13 as stated: when "git tag" prints no tag, getTags fails with the
\* "returned no tags" error if allowEmpty is false, and returns no tags
\* and a null latest tag if allowEmpty is true.
C13_NoTagsFailsUnlessAllowed ==
  (Returned("getTags") /\ call.args.stdout = <<>>) =>
    IF call.args.allowEmpty
    THEN call.ret.error = "none" /\ call.ret.allTags = <<>> /\ call.ret.latestTag = Null
    ELSE call.ret.error = "NoTags"

\* The last line "git tag" printed.
LastLine(stdout) == SplitLines(stdout)[Len(SplitLines(stdout))]

\* C14 as stated: getTags takes the last tag for the latest one and fails
\* with the "Invalid latest tag" error exactly when that tag, without an
\* optional leading "v", is no valid version.
C14_FailsIffLatestInvalidWithoutV ==
  Returned("getTags") =>
    LET latest == LastLine(call.args.stdout) IN
    /\ call.ret.error = "InvalidLatestTag" <=>
         ~(latest.k = "ver" /\ latest.pfx \in {<<>>, <<"v">>})
    /\ call.ret.error = "none" => call.ret.latestTag = latest

\* C14 as amended: getTags takes the last tag for the latest one and fails
\* with the "Invalid latest tag" error exactly when that tag, without its
\* leading run of "v" and "=" characters, is no valid version; the tags
\* before it are not looked at, and on success every tag is returned.
C14_FailsIffLatestInvalidWithoutPrefix ==
  Returned("getTags") =>
    LET latest == LastLine(call.args.stdout) IN
    /\ call.ret.error \in {"InvalidLatestTag", "none"}
    /\ call.ret.error = "InvalidLatestTag" <=>
         ~(latest.k = "ver" /\ \A i \in 1..Len(latest.pfx) : latest.pfx[i] \in {"v", "="})
    /\ call.ret.error = "none" =>
         (call.ret.latestTag = latest /\ call.ret.allTags = call.args.stdout)

C14_Witness ==
  /\ Returned("getTags")
  /\ call.args.stdout = <<Prepend("=", Prepend("v", Ver(1, 0, 0, "")))>>
  /\ call.ret.error = "none"

\* The directories among the entries of the packages directory.
Directories == {e \in packagesDirContents : e.isDirectory}

\* readdir has returned and every callback of getPackagesMetadata has
\* ended.
DiscoveryEnded ==
  /\ rootManifest # Null
  /\ pc # "readdir"
  /\ \A e \in DOMAIN tasks : tasks[e].pc \in {"done", "rejected"}

\* getPackagesMetadata has returned allPackages to main.
DiscoveryReturned ==
  pc \in {"getPackagesToUpdate", "updatePackages", "awaitWrites", "done"}

\* C15 as stated: getPackagesMetadata skips every entry that is no
\* directory without failing, and its result has exactly one entry per
\* directory, keyed by the name in the directory's manifest and recording
\* the directory's name, path and manifest.
C15_SkipsFilesAndRecordsEveryDirectory ==
  DiscoveryEnded =>
    /\ \A e \in packagesDirContents \ Directories : tasks[e].pc # "rejected"
    /\ failure # "ENOTDIR"
    /\ Len(allPackages.e) = Cardinality(Directories)
    /\ \A e \in Directories :
         \E i \in 1..Len(allPackages.e) :
           /\ allPackages.e[i].val.dirName = e.dirName
           /\ allPackages.e[i].val.path = Join(packagesPath, e.dirName)
           /\ allPackages.e[i].val.manifest = ManifestOfEntry(e.dirName)
           /\ allPackages.e[i].key = Get(ManifestOfEntry(e.dirName), NAME).s
           /\ allPackages.e[i].val.name = allPackages.e[i].key

\* C16 as stated: getPackagesMetadata does not return when two directories
\* declare one name in their manifests.
C16_DuplicateNameFails ==
  DiscoveryReturned =>
    \A e1, e2 \in Directories :
      e1 # e2 => Get(ManifestOfEntry(e1.dirName), NAME)
                   # Get(ManifestOfEntry(e2.dirName), NAME)

\* C20 as stated: after a successful run the version of the root manifest
\* is the new version.
C20_RootManifestHasNewVersion ==
  pc = "done" =>
    Get(JSONparse(files[ManifestPath(WORKSPACE_ROOT)]), VERSION) = newVersion

\* C17: getPackageManifest, for a manifest file that holds an object,
\* fails exactly when a required field is invalid (the name is required
\* and is no non-empty string, or the version is required and is no valid
\* version without a prefix); a field that is not required is not tested;
\* an invalid name is reported before an invalid version; a valid manifest
\* is returned as it was read.
C17_FailsIffRequiredFieldInvalid ==
  (Returned("getPackageManifest") /\ JSONparse(call.args.text).k = "obj") =>
    LET manifest == JSONparse(call.args.text)
        required == IF call.args.requiredFields.undefined THEN {NAME, VERSION}
                    ELSE call.args.requiredFields.fields
        name == Field(manifest, NAME)
        version == Field(manifest, VERSION)
        nameInvalid ==
          NAME \in required /\ ~(name.k \in {"txt", "ver"} /\ name # EmptyString)
        versionInvalid ==
          VERSION \in required /\ ~(version.k = "ver" /\ version.pfx = <<>>)
    IN
    /\ call.ret.error # "none" <=> (nameInvalid \/ versionInvalid)
    /\ nameInvalid => call.ret.error = "InvalidName"
    /\ (~nameInvalid /\ versionInvalid) => call.ret.error = "InvalidVersion"
    /\ call.ret.error = "none" => call.ret.manifest = manifest

C17_Witness ==
  /\ Returned("getPackageManifest")
  /\ call.args.requiredFields = [undefined |-> FALSE, fields |-> {NAME, VERSION}]
  /\ JSONparse(call.args.text) =
       Obj(<<[key |-> NAME, val |-> EmptyString],
             [key |-> VERSION, val |-> Prepend("v", Ver(1, 0, 0, ""))]>>)
  /\ call.ret.error = "InvalidName"

\* C18: validateMonorepoPackageManifest accepts a manifest only if its
\* "private", when present, is exactly true and its "workspaces", when
\* present, is a non-empty list of strings; every accepted manifest with
\* "workspaces" has "private" true; a manifest with an empty or non-array
\* "workspaces", or with "private" false or no boolean, is rejected; an
\* accepted manifest is passed through.
C18_MonorepoManifestValidation ==
  Returned("validateMonorepoPackageManifest") =>
    LET manifest == call.args.manifest
        private == Field(manifest, PRIVATE)
        workspaces == Field(manifest, WORKSPACES)
        accepted == call.ret.error = "none"
    IN
    /\ accepted =>
         /\ HasOwn(manifest, PRIVATE) => private = Bool(TRUE)
         /\ HasOwn(manifest, WORKSPACES) =>
              /\ workspaces.k = "arr"
              /\ Len(workspaces.e) > 0
              /\ \A i \in 1..Len(workspaces.e) : workspaces.e[i].k \in {"txt", "ver"}
              /\ private = Bool(TRUE)
         /\ call.ret.manifest = manifest
    /\ (HasOwn(manifest, WORKSPACES) /\ (workspaces.k # "arr" \/ workspaces = Arr(<<>>)))
         => ~accepted
    /\ (HasOwn(manifest, PRIVATE) /\ private # Bool(TRUE)) => ~accepted

C18_Witness ==
  /\ Returned("validateMonorepoPackageManifest")
  /\ ~HasOwn(call.args.manifest, PRIVATE)
  /\ Field(call.args.manifest, WORKSPACES) = Arr(<<Txt(<<"a">>), Txt(<<"b">>)>>)
  /\ call.ret.error = "InvalidPrivate"

\* The manifest path of package n.
ManifestPathOf(n) == Join(Get(allPackages, n).path, PACKAGE_JSON)

\* C19: updatePackages writes once, and only, for each package in
\* packagesToUpdate: at every moment each written path is the manifest
\* path of a package to update and was written once, with the manifest
\* getUpdatedManifest makes of the package's manifest (its version the new
\* version); when updatePackages has returned, every package to update was
\* written, and the manifest file of every other package is as it was.
C19_OneWritePerPackageToUpdate ==
  /\ \A path \in DOMAIN writeCount :
       /\ writeCount[path] = 1
       /\ \E n \in packagesToUpdate :
            /\ path = ManifestPathOf(n)
            /\ Get(JSONparse(files[path]), VERSION) = newVersion
            /\ JSONparse(files[path]) =
                 getUpdatedManifest(Get(allPackages, n).manifest,
                                    [newVersion |-> newVersion,
                                     packagesToUpdate |-> packagesToUpdate,
                                     versionDiff |-> versionDiff])
  /\ pc = "done" =>
       /\ DOMAIN writeCount = {ManifestPathOf(n) : n \in packagesToUpdate}
       /\ \A n \in KeySet(allPackages) \ packagesToUpdate :
            files[ManifestPathOf(n)] = FileText(Get(allPackages, n).manifest)

C19_Witness ==
  /\ pc = "done"
  /\ packagesToUpdate = {<<"a">>, <<"d">>}
  /\ writeCount[ManifestPathOf(<<"a">>)] = 1
  /\ writeCount[ManifestPathOf(<<"d">>)] = 1
  /\ ManifestPathOf(<<"b">>) \notin DOMAIN writeCount
  /\ Get(JSONparse(files[ManifestPathOf(<<"b">>)]), VERSION) = Ver(1, 1, 0, "")

\* C21 as stated: a run that ends successfully has reported the output
\* NEW_VERSION exactly once, its value the new version, and reports it only
\* once the manifest updates have completed.
C21_ReportsNewVersionOnce ==
  /\ pc = "done" => outputs = <<[name |-> "NEW_VERSION", value |-> newVersion]>>
  /\ pc # "done" => outputs = <<>>

\* C22 as stated: when a component of the run has failed (here a call of
\* didPackageChange during change detection) the run ends in failure,
\* reported once with that error, and is never reported successful.
C22_ComponentFailureFailsRun ==
  \A n \in DOMAIN calls :
    calls[n].pc = "rejected" =>
      /\ pc # "done"
      /\ failure \in {"none", calls[n].result}

\* The invocations of the formatter for the package directory path.
InvocationsFor(path) ==
  {i \in 1..Len(changelog.formatterCalls) :
     changelog.formatterCalls[i].projectRootDirectory = path}

C24_GetUpdatedManifestIdempotent ==
  (Returned("getUpdatedManifest") /\ "again" \in DOMAIN call) =>
    call.again = call.ret

\* A second application after a first one that changed the version and
\* rewrote a dependency range.
C24_Witness ==
  /\ Returned("getUpdatedManifest") /\ "again" \in DOMAIN call
  /\ call.args.updateContext.versionDiff = MAJOR
  /\ call.args.updateContext.packagesToUpdate = WorkspaceNames
  /\ HasOwn(call.args.manifest, <<"dependencies">>)
  /\ HasOwn(Get(call.args.manifest, <<"dependencies">>), <<"b">>)
  /\ Get(call.ret, <<"dependencies">>) # Get(call.args.manifest, <<"dependencies">>)
  /\ Get(call.ret, VERSION) # Get(call.args.manifest, VERSION)
  /\ Get(Get(call.again, <<"dependencies">>), <<"b">>)
       = Prepend("^", call.args.updateContext.newVersion)

\* C25 as stated: a manifest file written back with no logical change is
\* identical, byte for byte, to the file that was read (same key order,
\* two-space indentation, a line break at the end).
C25_UnchangedManifestWrittenByteForByte ==
  \A n \in KeySet(allPackages) :
    (/\ ManifestPathOf(n) \in DOMAIN writeCount
     /\ JSONparse(files[ManifestPathOf(n)]) = Get(allPackages, n).manifest) =>
      files[ManifestPathOf(n)] = FileText(Get(allPackages, n).manifest)

\* C26 as stated: in every interleaving, "git diff" is run at most once for
\* each tag, also when several packages ask for the same tag's diff while
\* one is being computed.
C26_DiffRunAtMostOncePerTag ==
  \A tag \in DOMAIN diffQueries : diffQueries[tag] <= 1

\* C27: the initialization of git is idempotent: "git tag" is run at most
\* once however many calls of didPackageChange are made, overlapping or one
\* after another, and the tag list, once loaded, is never replaced.
C27_TagsListedOnceAndKept ==
  /\ [](tagQueries <= 1)
  /\ [][TAGS # Null => TAGS' = TAGS]_vars

\* Two calls of didPackageChange have tested the loaded tags, after a single
\* "git tag".
C27_Witness ==
  /\ tagQueries = 1
  /\ TAGS # Null
  /\ \E n, o \in DOMAIN calls :
       /\ n # o
       /\ calls[n].checked /\ calls[n].tagsAtCheck = TAGS
       /\ calls[o].checked /\ calls[o].tagsAtCheck = TAGS

\* C28: no two manifest writes of a run go to the same file: distinct
\* packages of the workspace have distinct manifest paths, each package to
\* update has one write of its own, no path is written twice, and when the
\* run has ended every written file holds what its one write wrote,
\* whatever the order in which the writes ended.
C28_NoTwoWritesToOneManifest ==
  /\ \A n, o \in KeySet(allPackages) :
       n # o => ManifestPathOf(n) # ManifestPathOf(o)
  /\ \A n, o \in DOMAIN writers :
       n # o => writers[n].path # writers[o].path
  /\ \A n \in DOMAIN writers : writers[n].path = ManifestPathOf(n)
  /\ \A path \in DOMAIN writeCount : writeCount[path] = 1
  /\ pc = "done" =>
       \A n \in DOMAIN writers : files[writers[n].path] = writers[n].text

\* A run that ended after the writes of two packages.
C28_Witness ==
  /\ pc = "done"
  /\ \E n, o \in DOMAIN writers :
       /\ n # o
       /\ writeCount[writers[n].path] = 1
       /\ writeCount[writers[o].path] = 1

\* C29 as stated: no call of didPackageChange tests the membership of its
\* tag before a "git tag" has ended successfully and its tags are loaded,
\* also when calls overlap and when an earlier listing failed.
C29_TagsLoadedBeforeMembershipTest ==
  \A n \in DOMAIN calls :
    calls[n].checked => calls[n].tagsAtCheck # Null

\* C30 as stated: a run in which a step before the application of the
\* updates has failed (the validation of the inputs, the read of the root
\* manifest, the discovery of the packages, the change detection of a
\* package) writes no manifest file.
C30_NoWriteAfterFailedStep ==
  (\/ failure # "none"
   \/ \E n \in DOMAIN calls : calls[n].pc = "rejected") =>
    /\ writeCount = <<>>
    /\ \A path \in DOMAIN files : files[path].trailingNewline

=============================================================================
